---- MODULE Spec2Model ----
(***************************************************************************)
(* Model of the exoplanet dashboard's view/request controller             *)
(* (frontend/src/api.ts: plotPngUrl, fetchLc, predict and the App          *)
(* component).  Strings that are built or parsed character by character   *)
(* (URLs, the window-length entry) are sequences of one-character strings; *)
(* decimal numbers (prob_planet, threshold, diagnostics) are integers in  *)
(* hundredths; a nullable value is <<>> (null) or <<v>>.                   *)
(***************************************************************************)
EXTENDS Integers, Sequences, FiniteSets, TLC

\* ------------------------------------------------------------- bounds
\* Requests a behaviour may issue in total (caps the request counter).
MaxReq == 3
\* Characters in one entry typed into the window-length input.
MaxTyped == 4

\* ------------------------------------------------------------- values
Null == <<>>
Some(v) == <<v>>

Missions == {"Kepler", "K2", "TESS"}
Tabs == {"plot", "interactive", "predict"}
Targets == {"Kepler-10", "K2-18"}

SPOC == <<"S", "P", "O", "C">>
QLP == <<"Q", "L", "P">>
\* The options of the author select: "" (Auto), SPOC, QLP.
AuthorOptions == {<<>>, SPOC, QLP}
\* Further author arguments for plotPngUrl taken as a function of any string.
AuthorArgs == AuthorOptions \cup {<<"a", "&", "b">>, <<" ">>, <<"x", "=", "1">>}

Digit == {"0", "1", "2", "3", "4", "5", "6", "7", "8", "9"}
DigitVal(c) == CASE c = "0" -> 0 [] c = "1" -> 1 [] c = "2" -> 2 [] c = "3" -> 3
                 [] c = "4" -> 4 [] c = "5" -> 5 [] c = "6" -> 6 [] c = "7" -> 7
                 [] c = "8" -> 8 [] c = "9" -> 9
DigitChar(d) == CASE d = 0 -> "0" [] d = 1 -> "1" [] d = 2 -> "2" [] d = 3 -> "3"
                  [] d = 4 -> "4" [] d = 5 -> "5" [] d = 6 -> "6" [] d = 7 -> "7"
                  [] d = 8 -> "8" [] d = 9 -> "9"

\* A JavaScript number that is an integer or NaN.
Num(n) == [nan |-> FALSE, val |-> n]
NaN == [nan |-> TRUE, val |-> 0]

\* ------------------------------------------------------ pure functions
RECURSIVE NatToString(_)
NatToString(n) == IF n < 10 THEN <<DigitChar(n)>>
                  ELSE NatToString(n \div 10) \o <<DigitChar(n % 10)>>

\* `${x}` of a number in a template literal.
NumberToString(x) == IF x.nan THEN <<"N", "a", "N">>
                     ELSE IF x.val < 0 THEN <<"-">> \o NatToString(-x.val)
                     ELSE NatToString(x.val)

\* encodeURIComponent: unreserved characters pass, the others become %XX.
Unreserved == Digit \cup {"S", "P", "O", "C", "Q", "L", "a", "b", "x", "-", "_", ".", "~"}
PercentCode(c) == CASE c = " " -> <<"%", "2", "0">>
                    [] c = "&" -> <<"%", "2", "6">>
                    [] c = "=" -> <<"%", "3", "D">>
                    [] c = "?" -> <<"%", "3", "F">>
RECURSIVE encodeURIComponent(_)
encodeURIComponent(s) ==
    IF s = <<>> THEN <<>>
    ELSE (IF Head(s) \in Unreserved THEN <<Head(s)>> ELSE PercentCode(Head(s)))
         \o encodeURIComponent(Tail(s))

AuthorParamPrefix == <<"&", "a", "u", "t", "h", "o", "r", "=">>
PlotPath == <<"/", "a", "p", "i", "/", "p", "l", "o", "t", "-", "t", "e", "s", "t",
              "?", "w", "i", "n", "d", "o", "w", "_", "l", "e", "n", "g", "t", "h", "=">>
LcPath == <<"/", "a", "p", "i", "/", "l", "c", "-", "t", "e", "s", "t",
            "?", "w", "i", "n", "d", "o", "w", "_", "l", "e", "n", "g", "t", "h", "=">>

\* `author || undefined`: the empty string becomes undefined (Null).
AuthorOrUndefined(a) == IF a = <<>> THEN Null ELSE Some(a)

\* `author ? "&author=" + encodeURIComponent(author) : ""`, author optional.
AuthorParam(authorArg) ==
    IF authorArg # Null /\ authorArg[1] # <<>>
    THEN AuthorParamPrefix \o encodeURIComponent(authorArg[1])
    ELSE <<>>

\* Variant: the author parameter is appended even when there is no author.
plotPngUrlAlwaysAuthor(t, m, wl, authorArg) ==
    PlotPath \o NumberToString(wl) \o AuthorParamPrefix
        \o (IF authorArg = Null THEN <<>> ELSE encodeURIComponent(authorArg[1]))

plotPngUrl(t, m, wl, authorArg) == PlotPath \o NumberToString(wl) \o AuthorParam(authorArg)

fetchLcUrl(t, m, wl, authorArg) == LcPath \o NumberToString(wl) \o AuthorParam(authorArg)

\* The value an <input type="number"> reports: the entry when it is a valid
\* floating-point number, the empty string otherwise.
RECURSIVE AllDigits(_)
AllDigits(s) == s = <<>> \/ (Head(s) \in Digit /\ AllDigits(Tail(s)))

IsUnsignedInt(s) == s # <<>> /\ AllDigits(s)

\* digits, digits.digits or .digits
IsMantissa(s) ==
    \/ IsUnsignedInt(s)
    \/ \E i \in 1..Len(s) :
          /\ s[i] = "."
          /\ AllDigits(SubSeq(s, 1, i - 1))
          /\ IsUnsignedInt(SubSeq(s, i + 1, Len(s)))

IsExponent(s) ==
    \/ IsUnsignedInt(s)
    \/ (s # <<>> /\ Head(s) \in {"-", "+"} /\ IsUnsignedInt(Tail(s)))

IsUnsignedFloat(s) ==
    \/ IsMantissa(s)
    \/ \E i \in 1..Len(s) :
          /\ s[i] \in {"e", "E"}
          /\ IsMantissa(SubSeq(s, 1, i - 1))
          /\ IsExponent(SubSeq(s, i + 1, Len(s)))

IsValidFloat(s) ==
    \/ IsUnsignedFloat(s)
    \/ (s # <<>> /\ Head(s) = "-" /\ IsUnsignedFloat(Tail(s)))

InputValue(typed) == IF IsValidFloat(typed) THEN typed ELSE <<>>

\* parseInt(s): an optional sign, then the longest run of digits; NaN if none.
RECURSIVE DigitsValue(_, _)
DigitsValue(s, acc) ==
    IF s = <<>> \/ Head(s) \notin Digit THEN acc
    ELSE DigitsValue(Tail(s), 10 * acc + DigitVal(Head(s)))

parseInt(s) ==
    LET neg == s # <<>> /\ Head(s) = "-"
        body == IF s # <<>> /\ Head(s) \in {"-", "+"} THEN Tail(s) ELSE s
    IN IF body = <<>> \/ Head(body) \notin Digit THEN NaN
       ELSE Num(IF neg THEN -DigitsValue(body, 0) ELSE DigitsValue(body, 0))

DefaultEntry == <<"4", "0", "1">>

\* onChange of the window-length input: parseInt(e.target.value || "401").
WindowLenFromInput(typed) ==
    LET v == InputValue(typed)
    IN parseInt(IF v = <<>> THEN DefaultEntry ELSE v)

\* Variant: the comparison is strict.
DecisionStrict(p, th) ==
    IF (IF p = Null THEN 0 ELSE p[1].prob_planet) > th
    THEN "planet_like" ELSE "not_planet_like"

\* decision: (pred?.prob_planet ?? 0) >= threshold ? planet_like : not_planet_like
Decision(p, th) ==
    IF (IF p = Null THEN 0 ELSE p[1].prob_planet) >= th
    THEN "planet_like" ELSE "not_planet_like"

\* Variant: the mock result names a hard-coded target.
FakeFixedTarget(t, m) ==
    [target |-> "Kepler-10", mission |-> m, prob_planet |-> 84,
     decision |-> Some("planet_like"),
     diagnostics |-> Some([snr |-> 1830, cdpp_ppm |-> 6500, odd_even_diff |-> 1,
                           secondary_snr |-> 20, centroid_sigma |-> 70]),
     top_features |-> Some(<<[name |-> "depth_ppm", value |-> 52000, impact |-> 23],
                             [name |-> "duration_hr", value |-> 310, impact |-> 17],
                             [name |-> "secondary_snr", value |-> 20, impact |-> 10],
                             [name |-> "cdpp_ppm", value |-> 6500, impact |-> -12]>>),
     notes |-> Some(<<"No secondary at phase ~0.5", "Odd-even consistent">>)]

\* The mock PredictResult of runPredict (numbers in hundredths).
Fake(t, m) ==
    [target |-> t, mission |-> m, prob_planet |-> 84,
     decision |-> Some("planet_like"),
     diagnostics |-> Some([snr |-> 1830, cdpp_ppm |-> 6500, odd_even_diff |-> 1,
                           secondary_snr |-> 20, centroid_sigma |-> 70]),
     top_features |-> Some(<<[name |-> "depth_ppm", value |-> 52000, impact |-> 23],
                             [name |-> "duration_hr", value |-> 310, impact |-> 17],
                             [name |-> "secondary_snr", value |-> 20, impact |-> 10],
                             [name |-> "cdpp_ppm", value |-> 6500, impact |-> -12]>>),
     notes |-> Some(<<"No secondary at phase ~0.5", "Odd-even consistent">>)]

\* The value the catch clause receives: `throw new Error(await res.text())`
\* for a non-success status (kind "http"), or the Error a rejected fetch or
\* res.json() carries, with its description as message (kind "network").
Thrown(outcome) ==
    CASE outcome.kind = "http" -> [hasMessage |-> TRUE, message |-> outcome.text, str |-> "Error"]
      [] outcome.kind = "network" -> [hasMessage |-> TRUE, message |-> outcome.text, str |-> "TypeError"]

\* typeof e?.message === "string" ? e.message : String(e)
ErrorMessage(e) == IF e.hasMessage THEN e.message ELSE e.str

\* -------------------------------------------------------------- state
VARIABLES
    target, mission, author, windowLen, tab, threshold, mock,  \* controls (useState)
    lc, loadingLc, error, pred, loadingPred,                   \* results (useState)
    pngUrl, decision,                                          \* derived on each render
    inflight,                                                  \* promises awaiting the backend
    nextId,                                                    \* runs started so far, plus one
    last, lastDone                                             \* history: last event, last completed run per operation

controls == <<target, mission, author, windowLen, tab, threshold, mock>>
results == <<lc, loadingLc, error, pred, loadingPred>>
vars == <<target, mission, author, windowLen, tab, threshold, mock,
          lc, loadingLc, error, pred, loadingPred, pngUrl, decision,
          inflight, nextId, last, lastDone>>

Ops == {"lc", "predict"}
Outstanding(op) == {r \in inflight : r.op = op}

\* What the backend may answer (an external collaborator: any of these).
LcResponses ==
    {[time |-> <<1, 2>>, flux |-> <<100, 99>>, flat_time |-> <<1, 2>>, flat_flux |-> <<100, 100>>],
     [time |-> <<5>>, flux |-> <<42>>, flat_time |-> <<5>>, flat_flux |-> <<41>>]}
Real(t, m, p, d) ==
    [target |-> t, mission |-> m, prob_planet |-> p, decision |-> d,
     diagnostics |-> Null, top_features |-> Null, notes |-> Null]
PredictResponses ==
    {Real("K2-18", "K2", 30, Some("planet_like")), Real("Kepler-10", "Kepler", 90, Null)}
HttpErrorBodies == {"Target not found"}
NetworkErrors == {"Failed to fetch"}
Failures == {[kind |-> "http", text |-> b] : b \in HttpErrorBodies}
               \cup {[kind |-> "network", text |-> d] : d \in NetworkErrors}
Ok(data) == [kind |-> "ok", data |-> data]

NoRun == [id |-> 0, outcome |-> [kind |-> "none"]]
\* A history record: what happened last, to which operation and run, and
\* whether that operation held a result just before.
Event(kind, op, id, held) == [kind |-> kind, op |-> op, id |-> id, held |-> held]

\* The render that follows every state update: useMemo(plotPngUrl ...) and decision.
Render ==
    /\ pngUrl' = plotPngUrl(target', mission', windowLen', AuthorOrUndefined(author'))
    /\ decision' = Decision(pred', threshold')

Init ==
    /\ target = "Kepler-10" /\ mission = "Kepler" /\ author = <<>>
    /\ windowLen = Num(401) /\ tab = "plot" /\ threshold = 50 /\ mock = TRUE
    /\ lc = Null /\ loadingLc = FALSE /\ error = ""
    /\ pred = Null /\ loadingPred = FALSE
    /\ pngUrl = plotPngUrl(target, mission, windowLen, AuthorOrUndefined(author))
    /\ decision = Decision(pred, threshold)
    /\ inflight = {} /\ nextId = 1
    /\ last = Event("init", "none", 0, FALSE)
    /\ lastDone = [op \in Ops |-> NoRun]

\* ------------------------------------------------------------ controls
Edited == last' = Event("edit", "none", 0, FALSE)

SetTarget(v) ==
    /\ target' = v
    /\ Edited
    /\ UNCHANGED <<mission, author, windowLen, tab, threshold, mock, results,
                   inflight, nextId, lastDone>>
    /\ Render

SetMission(v) ==
    /\ mission' = v
    /\ Edited
    /\ UNCHANGED <<target, author, windowLen, tab, threshold, mock, results,
                   inflight, nextId, lastDone>>
    /\ Render

SetAuthor(v) ==
    /\ author' = v
    /\ Edited
    /\ UNCHANGED <<target, mission, windowLen, tab, threshold, mock, results,
                   inflight, nextId, lastDone>>
    /\ Render

SetWindowLen(typed) ==
    /\ windowLen' = WindowLenFromInput(typed)
    /\ Edited
    /\ UNCHANGED <<target, mission, author, tab, threshold, mock, results,
                   inflight, nextId, lastDone>>
    /\ Render

SetThreshold(v) ==
    /\ threshold' = v
    /\ Edited
    /\ UNCHANGED <<target, mission, author, windowLen, tab, mock, results,
                   inflight, nextId, lastDone>>
    /\ Render

SetMock(b) ==
    /\ mock' = b
    /\ Edited
    /\ UNCHANGED <<target, mission, author, windowLen, tab, threshold, results,
                   inflight, nextId, lastDone>>
    /\ Render

\* ------------------------------------------------------------- fetches
\* loadLc up to its await: setLoadingLc(true); setError(""); fetchLc(...) sent.
LoadLcStart ==
    /\ nextId <= MaxReq
    /\ loadingLc' = TRUE
    /\ error' = ""
    /\ inflight' = inflight \cup
          {[id |-> nextId, op |-> "lc",
            sent |-> [url |-> fetchLcUrl(target, mission, windowLen, AuthorOrUndefined(author)),
                      body |-> Null]]}
    /\ nextId' = nextId + 1
    /\ last' = Event("start", "lc", nextId, lc # Null)
    /\ UNCHANGED <<lc, pred, loadingPred, lastDone>>

\* Variant: the catch clause records the error and keeps the old light curve.
LoadLcResumeKeepsResult(r, outcome) ==
    /\ r \in Outstanding("lc")
    /\ inflight' = inflight \ {r}
    /\ IF outcome.kind = "ok"
       THEN lc' = Some(outcome.data) /\ error' = error
       ELSE lc' = lc /\ error' = ErrorMessage(Thrown(outcome))
    /\ loadingLc' = FALSE
    /\ last' = Event(outcome.kind, "lc", r.id, lc # Null)
    /\ lastDone' = [lastDone EXCEPT !["lc"] = [id |-> r.id, outcome |-> outcome]]
    /\ UNCHANGED <<controls, pred, loadingPred, nextId>>
    /\ Render

\* Variant: setLoadingLc(false) at the end of the try block instead of in finally.
LoadLcResumeNoFinally(r, outcome) ==
    /\ r \in Outstanding("lc")
    /\ inflight' = inflight \ {r}
    /\ IF outcome.kind = "ok"
       THEN lc' = Some(outcome.data) /\ error' = error /\ loadingLc' = FALSE
       ELSE lc' = Null /\ error' = ErrorMessage(Thrown(outcome)) /\ loadingLc' = loadingLc
    /\ last' = Event(outcome.kind, "lc", r.id, lc # Null)
    /\ lastDone' = [lastDone EXCEPT !["lc"] = [id |-> r.id, outcome |-> outcome]]
    /\ UNCHANGED <<controls, pred, loadingPred, nextId>>
    /\ Render

\* Variant: a response is dropped unless its request is the newest outstanding one.
LoadLcResumeFenced(r, outcome) ==
    /\ r \in Outstanding("lc")
    /\ inflight' = inflight \ {r}
    /\ IF \E q \in Outstanding("lc") : q.id > r.id
       THEN lc' = lc /\ error' = error
       ELSE IF outcome.kind = "ok"
            THEN lc' = Some(outcome.data) /\ error' = error
            ELSE lc' = Null /\ error' = ErrorMessage(Thrown(outcome))
    /\ loadingLc' = FALSE
    /\ last' = Event(outcome.kind, "lc", r.id, lc # Null)
    /\ lastDone' = [lastDone EXCEPT !["lc"] = [id |-> r.id, outcome |-> outcome]]
    /\ UNCHANGED <<controls, pred, loadingPred, nextId>>
    /\ Render

\* loadLc after its await: setLc(data), or the catch clause; then finally.
LoadLcResume(r, outcome) ==
    /\ r \in Outstanding("lc")
    /\ inflight' = inflight \ {r}
    /\ IF outcome.kind = "ok"
       THEN lc' = Some(outcome.data) /\ error' = error
       ELSE lc' = Null /\ error' = ErrorMessage(Thrown(outcome))
    /\ loadingLc' = FALSE
    /\ last' = Event(outcome.kind, "lc", r.id, lc # Null)
    /\ lastDone' = [lastDone EXCEPT !["lc"] = [id |-> r.id, outcome |-> outcome]]
    /\ UNCHANGED <<controls, pred, loadingPred, nextId>>
    /\ Render

PredictUrl == <<"/", "a", "p", "i", "/", "p", "r", "e", "d", "i", "c", "t">>

\* runPredict with mock on: the whole function runs without suspending.
RunPredictMock ==
    /\ mock
    /\ nextId <= MaxReq
    /\ pred' = Some(Fake(target, mission))
    /\ error' = ""
    /\ loadingPred' = FALSE
    /\ nextId' = nextId + 1
    /\ last' = Event("mock", "predict", nextId, pred # Null)
    /\ lastDone' = [lastDone EXCEPT !["predict"] =
                       [id |-> nextId, outcome |-> [kind |-> "mock", data |-> Fake(target, mission)]]]
    /\ UNCHANGED <<lc, loadingLc, inflight>>

\* runPredict with mock off, up to its await.
RunPredictStart ==
    /\ ~mock
    /\ nextId <= MaxReq
    /\ loadingPred' = TRUE
    /\ error' = ""
    /\ inflight' = inflight \cup
          {[id |-> nextId, op |-> "predict",
            sent |-> [url |-> PredictUrl,
                      body |-> Some([target |-> target, mission |-> mission,
                                     author |-> AuthorOrUndefined(author),
                                     threshold |-> threshold])]]}
    /\ nextId' = nextId + 1
    /\ last' = Event("start", "predict", nextId, pred # Null)
    /\ UNCHANGED <<lc, loadingLc, pred, lastDone>>

runPredict == RunPredictMock \/ RunPredictStart

\* runPredict after its await: setPred(real), or the catch clause; then finally.
RunPredictResume(r, outcome) ==
    /\ r \in Outstanding("predict")
    /\ inflight' = inflight \ {r}
    /\ IF outcome.kind = "ok"
       THEN pred' = Some(outcome.data) /\ error' = error
       ELSE pred' = Null /\ error' = ErrorMessage(Thrown(outcome))
    /\ loadingPred' = FALSE
    /\ last' = Event(outcome.kind, "predict", r.id, pred # Null)
    /\ lastDone' = [lastDone EXCEPT !["predict"] = [id |-> r.id, outcome |-> outcome]]
    /\ UNCHANGED <<controls, lc, loadingLc, nextId>>
    /\ Render

\* ---------------------------------------------------------------- tabs
\* Variant: the plot button also calls loadLc(), as the interactive button does.
ClickPlotLoads ==
    /\ tab' = "plot"
    /\ LoadLcStart
    /\ UNCHANGED <<target, mission, author, windowLen, threshold, mock>>
    /\ Render

\* Both "Plot" buttons: setTab("plot").
ClickPlot ==
    /\ tab' = "plot"
    /\ last' = Event("tab", "none", 0, FALSE)
    /\ UNCHANGED <<target, mission, author, windowLen, threshold, mock, results,
                   inflight, nextId, lastDone>>
    /\ Render

\* Both "Interactive" buttons: setTab("interactive"); loadLc().
ClickInteractive ==
    /\ tab' = "interactive"
    /\ LoadLcStart
    /\ UNCHANGED <<target, mission, author, windowLen, threshold, mock>>
    /\ Render

\* The "Predict" pill: setTab("predict"); runPredict().
ClickPredict ==
    /\ tab' = "predict"
    /\ runPredict
    /\ UNCHANGED <<target, mission, author, windowLen, threshold, mock>>
    /\ Render

\* The "Re-score" button, rendered in the predict tab only: runPredict().
ClickRescore ==
    /\ tab = "predict"
    /\ runPredict
    /\ UNCHANGED controls
    /\ Render

\* ------------------------------------------------------ specifications
\* The request controller: tabs, the mock switch and both fetches.
Next ==
    \/ \E b \in BOOLEAN : SetMock(b)
    \/ ClickPlot
    \/ ClickInteractive
    \/ ClickPredict
    \/ ClickRescore
    \/ \E r \in inflight, o \in {Ok(d) : d \in LcResponses} \cup Failures : LoadLcResume(r, o)
    \/ \E r \in inflight, o \in {Ok(d) : d \in PredictResponses} \cup Failures : RunPredictResume(r, o)

Spec == Init /\ [][Next]_vars

\* The controller under the scheduling the event loop gives: a settled promise's
\* continuation runs (every issued request is assumed to be answered).
LcSettles == \E r \in inflight, o \in {Ok(d) : d \in LcResponses} \cup Failures : LoadLcResume(r, o)
PredictSettles == \E r \in inflight, o \in {Ok(d) : d \in PredictResponses} \cup Failures : RunPredictResume(r, o)

FairSpec == Init /\ [][Next]_vars /\ WF_vars(LcSettles) /\ WF_vars(PredictSettles)

\* The prediction panel alone, with the query fields the mock result is built from.
NextMock ==
    \/ \E v \in Targets : SetTarget(v)
    \/ \E v \in Missions : SetMission(v)
    \/ \E b \in BOOLEAN : SetMock(b)
    \/ ClickPredict
    \/ ClickRescore
    \/ \E r \in inflight, o \in {Ok(d) : d \in PredictResponses} \cup Failures : RunPredictResume(r, o)

SpecMock == Init /\ [][NextMock]_vars

\* The query form: the entries typed into the window-length input are all the
\* strings of at most MaxTyped characters over TypedAlphabet.
TypedAlphabet == {"0", "1", "5", "-", ".", "e"}
TypedEntries == UNION {[1..n -> TypedAlphabet] : n \in 0..MaxTyped}

NextQuery ==
    \/ \E v \in AuthorOptions : SetAuthor(v)
    \/ \E typed \in TypedEntries : SetWindowLen(typed)
    \/ ClickPlot

SpecQuery == Init /\ [][NextQuery]_vars

\* plotPngUrl as a function of its arguments: any mission, window length and
\* author string, recomputed whenever one of them changes.
WindowLens == {Num(51), Num(401), Num(5001), Num(7), Num(-3), NaN}

InitUrl ==
    /\ target = "Kepler-10" /\ mission \in Missions /\ author \in AuthorArgs
    /\ windowLen \in WindowLens /\ tab = "plot" /\ threshold = 50 /\ mock = TRUE
    /\ lc = Null /\ loadingLc = FALSE /\ error = ""
    /\ pred = Null /\ loadingPred = FALSE
    /\ pngUrl = plotPngUrl(target, mission, windowLen, AuthorOrUndefined(author))
    /\ decision = Decision(pred, threshold)
    /\ inflight = {} /\ nextId = 1
    /\ last = Event("init", "none", 0, FALSE)
    /\ lastDone = [op \in Ops |-> NoRun]

NextUrl ==
    \/ \E v \in Missions : SetMission(v)
    \/ \E v \in AuthorArgs : SetAuthor(v)
    \/ \E v \in Targets : SetTarget(v)

SpecUrl == InitUrl /\ [][NextUrl]_vars

\* decision as a function of the stored result and the threshold, over the
\* slider's grid of hundredths.
Hundredths == 0..100
Decisions == {"planet_like", "not_planet_like"}
StoredResults ==
    {Null} \cup {Some(Real("Kepler-10", "Kepler", p, Some(d))) : p \in Hundredths, d \in Decisions}
           \cup {Some(Fake("Kepler-10", "Kepler"))}

InitDecision ==
    /\ target = "Kepler-10" /\ mission = "Kepler" /\ author = <<>>
    /\ windowLen = Num(401) /\ tab = "predict" /\ threshold \in Hundredths /\ mock = TRUE
    /\ lc = Null /\ loadingLc = FALSE /\ error = ""
    /\ pred \in StoredResults /\ loadingPred = FALSE
    /\ pngUrl = plotPngUrl(target, mission, windowLen, AuthorOrUndefined(author))
    /\ decision = Decision(pred, threshold)
    /\ inflight = {} /\ nextId = 1
    /\ last = Event("init", "none", 0, FALSE)
    /\ lastDone = [op \in Ops |-> NoRun]

NextDecision == \E v \in Hundredths : SetThreshold(v)

SpecDecision == InitDecision /\ [][NextDecision]_vars

\* -------------------------------------------------------------- claims
FailureKinds == {"http", "network"}
Result(op) == IF op = "lc" THEN lc ELSE pred
Loading(op) == IF op = "lc" THEN loadingLc ELSE loadingPred

\* C1: for each operation, the loading flag is true if and only if at least
\* one request of that operation has been started and has not yet resolved.
C1_LoadingIffOutstanding ==
    \A op \in Ops : Loading(op) <=> Outstanding(op) # {}

\* C4: with no request of an operation outstanding its loading flag is false
\* (every resolution leaves it false), and, when every issued request is
\* eventually answered, a raised flag is eventually lowered again.
C4_FlagNeverStuck ==
    /\ [](\A op \in Ops : Outstanding(op) = {} => ~Loading(op))
    /\ (loadingLc ~> ~loadingLc)
    /\ (loadingPred ~> ~loadingPred)

\* A failed light-curve request has just resolved, none is outstanding and the
\* flag is down.
C4_Witness ==
    /\ last.op = "lc" /\ last.kind \in FailureKinds
    /\ Outstanding("lc") = {} /\ ~loadingLc

\* What a settled run writes to its operation's result.
Written(outcome) == IF outcome.kind \in {"ok", "mock"} THEN Some(outcome.data) ELSE Null

\* C2: right after a light-curve request or a real prediction request fails
\* (non-success status or network failure), the operation's result is absent
\* and the error message is the failure text, whatever was held before.
C2_FailureClearsResult ==
    \A op \in Ops :
        (last.op = op /\ last.kind \in FailureKinds)
            => /\ Result(op) = Null
               /\ error = lastDone[op].outcome.text
               /\ lastDone[op].id = last.id

\* A request failed while its operation held a result; a non-success status
\* of a prediction request is the case shown.
C2_Witness ==
    /\ last.op = "predict" /\ last.kind = "http" /\ last.held
    /\ pred = Null /\ error = "Target not found"

\* C3: right after a request resolves successfully, the operation's result is
\* that response and the error message is empty, in every interleaving.
C3_SuccessClearsError ==
    \A op \in Ops :
        (last.op = op /\ last.kind = "ok")
            => /\ Result(op) = Some(lastDone[op].outcome.data)
               /\ error = ""

\* C10: nothing fences responses: the result of an operation is always the one
\* written by the run of that operation that settled last, whatever its place
\* in the order of issue, also when a newer request settled before it.
C10_LastSettledWins ==
    \A op \in Ops :
        lastDone[op].outcome.kind # "none"
            => /\ Result(op) = Written(lastDone[op].outcome)
               /\ (last.op = op /\ last.kind \in FailureKinds => error = lastDone[op].outcome.text)

\* Two overlapping light-curve requests, 1 then 2, have both resolved; request
\* 1 resolved last and its response is the light curve shown.
C10_Witness ==
    /\ nextId = 3 /\ inflight = {} /\ lastDone["predict"] = NoRun
    /\ lastDone["lc"].id = 1 /\ lastDone["lc"].outcome.kind = "ok"
    /\ lc = Some(lastDone["lc"].outcome.data)

\* C8: exactly one tab is active; selecting "interactive" starts exactly one
\* light-curve request, selecting "predict" exactly one prediction run, and
\* selecting "plot" starts nothing and leaves the results and flags alone.
NewRequests(op) == {r \in inflight' : r \notin inflight /\ r.op = op}
C8_Step ==
    /\ (tab' = "plot" /\ (tab # "plot" \/ last'.kind = "tab"))
          => UNCHANGED <<lc, pred, error, loadingLc, loadingPred, inflight, nextId>>
    /\ (tab' = "interactive" /\ (tab # "interactive" \/ (last'.op = "lc" /\ last'.kind = "start")))
          => /\ Cardinality(NewRequests("lc")) = 1
             /\ NewRequests("predict") = {}
             /\ nextId' = nextId + 1
    /\ (tab' = "predict" /\ (tab # "predict" \/ (last' # last /\ last'.kind \in {"start", "mock"})))
          => /\ nextId' = nextId + 1
             /\ last'.op = "predict" /\ last'.kind \in {"start", "mock"}
             /\ Cardinality(NewRequests("predict")) = (IF mock THEN 0 ELSE 1)
             /\ NewRequests("lc") = {}
C8_TabSelection == [](tab \in Tabs) /\ [][C8_Step]_vars

\* The plot tab was selected while a light-curve request was outstanding, and
\* the request, its flag and the stored prediction are still there.
C8_Witness ==
    /\ tab = "plot" /\ last.kind = "tab"
    /\ Outstanding("lc") # {} /\ loadingLc /\ pred # Null

\* The fixed mock result as the specification gives it (hundredths).
C7_MockResult(t, m) ==
    [target |-> t, mission |-> m, prob_planet |-> 84,
     decision |-> Some("planet_like"),
     diagnostics |-> Some([snr |-> 1830, cdpp_ppm |-> 6500, odd_even_diff |-> 1,
                           secondary_snr |-> 20, centroid_sigma |-> 70]),
     top_features |-> Some(<<[name |-> "depth_ppm", value |-> 52000, impact |-> 23],
                             [name |-> "duration_hr", value |-> 310, impact |-> 17],
                             [name |-> "secondary_snr", value |-> 20, impact |-> 10],
                             [name |-> "cdpp_ppm", value |-> 6500, impact |-> -12]>>),
     notes |-> Some(<<"No secondary at phase ~0.5", "Odd-even consistent">>)]
C7_Inv ==
    last.kind = "mock"
        => /\ pred = Some(C7_MockResult(target, mission))
           /\ error = "" /\ ~loadingPred
           /\ lastDone["predict"].outcome.kind = "mock"
           /\ Decision(pred, 50) = "planet_like"
C7_Step == (last'.kind = "mock" /\ last' # last) => inflight' = inflight

\* C7: a prediction run started with mock mode on issues no request, never
\* fails, and stores the fixed result built from the current target and
\* mission alone (prob_planet 0.84), whose decision at threshold 0.5 is
\* planet_like; so two mock runs with the same target and mission store the
\* same content.
C7_MockDeterministic == []C7_Inv /\ [][C7_Step]_vars

\* A mock run, not the first run, for target K2-18 and mission K2.
C7_Witness ==
    /\ last.kind = "mock" /\ last.id > 1 /\ last.held
    /\ target = "K2-18" /\ mission = "K2"
    /\ pred # Null /\ pred[1].prob_planet = 84 /\ pred[1].target = "K2-18"

C5_Inv ==
    /\ decision \in Decisions
    /\ pred # Null => (decision = "planet_like" <=> pred[1].prob_planet >= threshold)
C5_Step ==
    threshold' # threshold
        => UNCHANGED <<pred, inflight, nextId, lc, error, loadingLc, loadingPred, lastDone>>

\* C5: the displayed decision is planet_like exactly when the stored
\* prob_planet is at least the threshold (boundary included), over the grid of
\* hundredths, whatever decision field the stored result carries; moving the
\* threshold starts no request and leaves the stored result alone.
C5_DecisionFromThreshold == []C5_Inv /\ [][C5_Step]_vars

\* The threshold was moved onto the stored probability: the decision shown is
\* planet_like although the stored result says not_planet_like.
C5_Witness ==
    /\ last.kind = "edit" /\ pred # Null
    /\ pred[1].prob_planet = threshold /\ threshold = 37
    /\ pred[1].decision = Some("not_planet_like") /\ decision = "planet_like"

\* C6: the stored window length is always an integer in [51, 5001].
C6_WindowLenInRange == ~windowLen.nan /\ windowLen.val \in 51..5001

Contains(u, part) ==
    \E i \in 1..(Len(u) - Len(part) + 1) : SubSeq(u, i, i + Len(part) - 1) = part
C9_Example ==
    <<"/", "a", "p", "i", "/", "p", "l", "o", "t", "-", "t", "e", "s", "t", "?",
      "w", "i", "n", "d", "o", "w", "_", "l", "e", "n", "g", "t", "h", "=", "4", "0", "1">>
\* The URL shown is the one for the current query, it has an author parameter
\* exactly when there is an author, and the example URL is as stated.
C9_PureAndAuthor ==
    /\ pngUrl = plotPngUrl(target, mission, windowLen, AuthorOrUndefined(author))
    /\ Contains(pngUrl, AuthorParamPrefix) <=> author # <<>>
    /\ (author # <<>> => Contains(pngUrl, AuthorParamPrefix \o encodeURIComponent(author)))
    /\ (windowLen = Num(401) /\ author = <<>>) => pngUrl = C9_Example
\* Another window length or another author gives another URL.
C9_EncodesWindowAndAuthor ==
    \A wl \in WindowLens, a \in AuthorArgs :
        <<wl, a>> # <<windowLen, author>>
            => plotPngUrl(target, mission, wl, AuthorOrUndefined(a)) # pngUrl
\* Another mission gives another URL.
C9_EncodesMission ==
    \A m \in Missions :
        m # mission => plotPngUrl(target, m, windowLen, AuthorOrUndefined(author)) # pngUrl

\* C9 as stated: the plot URL is a function of (mission, windowLength, author),
\* carries an author parameter iff author is non-empty, is
\* /api/plot-test?window_length=401 for 401 and no author, and encodes the
\* mission, the window length and the optional author.
C9_UrlEncodesMission == C9_PureAndAuthor /\ C9_EncodesWindowAndAuthor /\ C9_EncodesMission

\* C9 as the code has it: the same, except that the URL encodes the window
\* length and the optional author only; the mission (like the target) is not
\* part of it.
C9_UrlOfWindowAndAuthor ==
    /\ C9_PureAndAuthor
    /\ C9_EncodesWindowAndAuthor
    /\ \A m \in Missions, t \in Targets :
          plotPngUrl(t, m, windowLen, AuthorOrUndefined(author)) = pngUrl

\* An author with a reserved character was set for mission TESS.
C9_Witness ==
    /\ last.kind = "edit" /\ mission = "TESS" /\ author = <<"a", "&", "b">>
    /\ windowLen = Num(401)
    /\ Contains(pngUrl, <<"&", "a", "u", "t", "h", "o", "r", "=", "a", "%", "2", "6", "b">>)

====
